---------------------------- MODULE Spec2Model ----------------------------
(***************************************************************************)
(* Model of internal/infoblox/infoblox.go: the Infoblox provider of the    *)
(* external-dns webhook.                                                   *)
(*                                                                         *)
(* Strings are sequences of one-character strings, so that the string      *)
(* operations of the code (strings.HasSuffix, strings.EqualFold, len,      *)
(* concatenation, net.ParseIP, net.ParseCIDR) are computed on characters.  *)
(* Addresses are IPv4: no name of the model holds a ':'.                   *)
(*                                                                         *)
(* The module holds six specifications over the same variables:            *)
(*   SpecZone   findZone and findReverseZone applied to a zone list        *)
(*   SpecBatch  ChangesByZone applied to a zone list and a change list     *)
(*   SpecDiff   ApplyChanges: CountDiff and newIBChanges, up to the call   *)
(*              of submitChanges                                           *)
(*   SpecSubmit submitChanges, one backend call sequence per change        *)
(*   SpecMalformed  ApplyChanges on batches that break the caller contract *)
(*   SpecPtr    the PTR marking of Records and AdjustEndpoints             *)
(***************************************************************************)
EXTENDS Integers, Sequences, FiniteSets, TLC

VARIABLES
    pc,              \* position of the handler that is running
    cfg,             \* p.config: CreatePTR, DryRun, DefaultTTL
    zones,           \* the zone list ([]*ibclient.ZoneAuth, by Fqdn)
    ret,             \* the value the last call returned
    input,           \* plan.Changes as ApplyChanges received it
    changes,         \* plan.Changes, rewritten in place by CountDiff
    combinedChanges, \* the []*infobloxChange handed on (changeSets)
    changesByZone,   \* the map ChangesByZone built
    visit,           \* submitChanges: zones and changes still to visit
    calls,           \* every backend call issued so far, with its outcome
    endpoints        \* the endpoint list Records / AdjustEndpoints works on

vars == <<pc, cfg, zones, ret, input, changes, combinedChanges,
          changesByZone, visit, calls, endpoints>>

-----------------------------------------------------------------------------
(* Names of the model, as character sequences.                             *)

ExampleCom == <<"e","x","a","m","p","l","e",".","c","o","m">>
AExampleCom == <<"a",".">> \o ExampleCom
BExampleCom == <<"b",".">> \o ExampleCom
HostAExampleCom == <<"h","o","s","t",".">> \o AExampleCom
HostExampleCom == <<"h","o","s","t",".">> \o ExampleCom
UpperAExampleCom == <<"A",".","E","X","A","M","P","L","E",".","C","O","M">>
XExampleCom == <<"x">> \o ExampleCom
OtherOrg == <<"o","t","h","e","r",".","o","r","g">>
Net10Slash8 == <<"1","0",".","0",".","0",".","0","/","8">>
Net10_1Slash16 == <<"1","0",".","1",".","0",".","0","/","1","6">>
Ip10_1_2_3 == <<"1","0",".","1",".","2",".","3">>
Ip10_9_9_9 == <<"1","0",".","9",".","9",".","9">>
Ip5_5_5_5 == <<"5",".","5",".","5",".","5">>
Ip1_1_1_1 == <<"1",".","1",".","1",".","1">>
Ip2_2_2_2 == <<"2",".","2",".","2",".","2">>
Ip3_3_3_3 == <<"3",".","3",".","3",".","3">>

RecordTypeA == <<"A">>
RecordTypeTXT == <<"T","X","T">>
RecordTypeCNAME == <<"C","N","A","M","E">>
RecordTypePTR == <<"P","T","R">>
RecordTypeSRV == <<"S","R","V">>

providerSpecificInfobloxPtrRecord == "infoblox-ptr-record-exists"
infobloxCreate == "CREATE"
infobloxDelete == "DELETE"
infobloxUpdate == "UPDATE"

\* A nil *ibclient.ZoneAuth / a nil pointer result.
Nil == <<"<nil>">>

-----------------------------------------------------------------------------
(* Go's string and net functions, on character sequences.                  *)

\* strings.HasSuffix(s, suffix)
HasSuffix(s, suffix) ==
    /\ Len(s) >= Len(suffix)
    /\ SubSeq(s, Len(s) - Len(suffix) + 1, Len(s)) = suffix

UpperCase == <<"A","B","C","D","E","F","G","H","I","J","K","L","M",
               "N","O","P","Q","R","S","T","U","V","W","X","Y","Z">>
LowerCase == <<"a","b","c","d","e","f","g","h","i","j","k","l","m",
               "n","o","p","q","r","s","t","u","v","w","x","y","z">>

\* The simple case folding strings.EqualFold applies to one ASCII character.
Fold(c) ==
    IF \E i \in 1..Len(UpperCase) : UpperCase[i] = c
    THEN LowerCase[CHOOSE i \in 1..Len(UpperCase) : UpperCase[i] = c]
    ELSE c

\* strings.EqualFold(s, t)
EqualFold(s, t) ==
    /\ Len(s) = Len(t)
    /\ \A i \in 1..Len(s) : Fold(s[i]) = Fold(t[i])

Digits == <<"0","1","2","3","4","5","6","7","8","9">>
IsDigit(c) == \E i \in 1..Len(Digits) : Digits[i] = c
DigitVal(c) == (CHOOSE i \in 1..Len(Digits) : Digits[i] = c) - 1

\* Index of the first sep in s, 0 when there is none (strings.IndexByte + 1).
IndexOf(s, sep) ==
    IF \E i \in 1..Len(s) : s[i] = sep
    THEN CHOOSE i \in 1..Len(s) : s[i] = sep /\ \A j \in 1..(i - 1) : s[j] # sep
    ELSE 0

\* The fields of s between the separators sep (strings.Split).
RECURSIVE Split(_, _)
Split(s, sep) ==
    LET i == IndexOf(s, sep)
    IN  IF i = 0 THEN <<s>>
        ELSE <<SubSeq(s, 1, i - 1)>> \o Split(SubSeq(s, i + 1, Len(s)), sep)

\* The value of a sequence of decimal digits.
RECURSIVE DecValue(_)
DecValue(s) ==
    IF s = <<>> THEN 0
    ELSE 10 * DecValue(SubSeq(s, 1, Len(s) - 1)) + DigitVal(s[Len(s)])

IsDecimal(s) == s # <<>> /\ \A i \in 1..Len(s) : IsDigit(s[i])

\* One field of a dotted-decimal address: one to three digits, no leading
\* zero, at most 255.
IsOctet(s) ==
    /\ IsDecimal(s)
    /\ Len(s) <= 3
    /\ (Len(s) > 1 => s[1] # "0")
    /\ DecValue(s) <= 255

\* net.ParseIP(s) for IPv4: the four bytes of the address, <<>> for nil.
ParseIP(s) ==
    LET f == Split(s, ".")
    IN  IF Len(f) = 4 /\ \A i \in 1..4 : IsOctet(f[i])
        THEN [i \in 1..4 |-> DecValue(f[i])]
        ELSE <<>>

IPv4len == 4

RECURSIVE Pow2(_)
Pow2(n) == IF n = 0 THEN 1 ELSE 2 * Pow2(n - 1)

\* Byte k of net.CIDRMask(ones, 8*IPv4len) applied to the byte b.
MaskByte(b, k, ones) ==
    LET covered == IF ones >= 8 * k THEN 8
                   ELSE IF ones <= 8 * (k - 1) THEN 0
                   ELSE ones - 8 * (k - 1)
        q == Pow2(8 - covered)
    IN  (b \div q) * q

\* net.ParseCIDR(s): [ok, ip (the network address, masked), ones].
ParseCIDR(s) ==
    LET i == IndexOf(s, "/")
        addr == SubSeq(s, 1, i - 1)
        mask == SubSeq(s, i + 1, Len(s))
        bad == [ok |-> FALSE, ip |-> <<>>, ones |-> 0]
    IN  IF i = 0 THEN bad
        ELSE IF ParseIP(addr) = <<>> \/ ~IsDecimal(mask) \/ Len(mask) > 3 THEN bad
        ELSE IF DecValue(mask) > 8 * IPv4len THEN bad
        ELSE LET n == DecValue(mask)
             IN  [ok |-> TRUE,
                  ip |-> [k \in 1..IPv4len |-> MaskByte(ParseIP(addr)[k], k, n)],
                  ones |-> n]

\* (*IPNet).Contains(ip): a nil ip has length 0, not the network's 4.
Contains(net, ip) ==
    /\ Len(ip) = Len(net.ip)
    /\ \A k \in 1..Len(ip) : MaskByte(ip[k], k, net.ones) = net.ip[k]

\* IPMask.Size(): the number of leading ones and the total bits of the mask.
MaskSize(net) == <<net.ones, 8 * IPv4len>>

-----------------------------------------------------------------------------
(* Zone routing: findZone, findReverseZone, ChangesByZone.                 *)

\* The loop of findZone from index idx on, result being the zone held so far.
RECURSIVE findZoneLoop(_, _, _, _)
findZoneLoop(zs, name, idx, result) ==
    IF idx > Len(zs) THEN result
    ELSE LET zone == zs[idx]
             longer == result = Nil \/ Len(zone) > Len(result)
         IN  IF HasSuffix(name, <<".">> \o zone)
             THEN findZoneLoop(zs, name, idx + 1, IF longer THEN zone ELSE result)
             ELSE IF EqualFold(name, zone)
             THEN findZoneLoop(zs, name, idx + 1, IF longer THEN zone ELSE result)
             ELSE findZoneLoop(zs, name, idx + 1, result)

\* findZone that keeps the first match instead of the longest.
findZoneFirst(zs, name) ==
    LET M == {i \in 1..Len(zs) :
                 HasSuffix(name, <<".">> \o zs[i]) \/ EqualFold(name, zs[i])}
    IN  IF M = {} THEN Nil ELSE zs[CHOOSE i \in M : \A j \in M : i <= j]

\* (p *Provider) findZone(zones, name)
findZone(zs, name) == findZoneLoop(zs, name, 1, Nil)

\* The loop of findReverseZone: st holds the map networks and maxMask.
RECURSIVE findReverseZoneLoop(_, _, _, _)
findReverseZoneLoop(zs, ip, i, st) ==
    IF i > Len(zs) THEN st
    ELSE LET rZoneNet == ParseCIDR(zs[i])
         IN  IF ~rZoneNet.ok THEN findReverseZoneLoop(zs, ip, i + 1, st)
             ELSE IF Contains(rZoneNet, ip)
             THEN LET mask == MaskSize(rZoneNet)[2]
                  IN  findReverseZoneLoop(zs, ip, i + 1,
                          [networks |-> [m \in DOMAIN st.networks \cup {mask} |->
                                            IF m = mask THEN zs[i] ELSE st.networks[m]],
                           maxMask |-> IF mask > st.maxMask THEN mask ELSE st.maxMask])
             ELSE findReverseZoneLoop(zs, ip, i + 1, st)

\* (p *Provider) findReverseZone(zones, name)
findReverseZone(zs, name) ==
    LET st == findReverseZoneLoop(zs, ParseIP(name), 1,
                                  [networks |-> <<>>, maxMask |-> 0])
    IN  IF st.maxMask \in DOMAIN st.networks THEN st.networks[st.maxMask] ELSE Nil

\* changes[k] = append(changes[k], c) on a Go map: a missing key reads as nil.
MapAppend(m, k, c) ==
    IF k \in DOMAIN m THEN [m EXCEPT ![k] = Append(@, c)]
    ELSE [x \in DOMAIN m \cup {k} |-> IF x = k THEN <<c>> ELSE m[x]]

\* The reverse change with name and target exchanged.
PtrChangeSwapped(c) ==
    [Action |-> c.Action,
     Endpoint |-> [c.Endpoint EXCEPT !.RecordType = RecordTypePTR,
                                     !.DNSName = c.Endpoint.Targets[1],
                                     !.Targets = <<c.Endpoint.DNSName>>]]

\* copyEp := *c.Endpoint; copyEp.RecordType = endpoint.RecordTypePTR
PtrChange(c) ==
    [Action |-> c.Action,
     Endpoint |-> [c.Endpoint EXCEPT !.RecordType = RecordTypePTR]]

\* A start without the empty lists.
SeedNothing(zs) == <<>>

\* The map ChangesByZone starts from: every zone with an empty list.
SeedZones(zs) == [z \in {zs[i] : i \in 1..Len(zs)} |-> <<>>]

\* The loop of ChangesByZone over changeSets from index i on.
RECURSIVE ChangesByZoneLoop(_, _, _, _, _)
ChangesByZoneLoop(createPTR, zs, changeSets, i, m) ==
    IF i > Len(changeSets) THEN m
    ELSE LET c == changeSets[i]
             zone == findZone(zs, c.Endpoint.DNSName)
         IN  IF zone = Nil \/ zone = <<>>
             THEN ChangesByZoneLoop(createPTR, zs, changeSets, i + 1, m)
             ELSE LET m1 == MapAppend(m, zone, c)
                  IN  IF createPTR /\ c.Endpoint.RecordType = RecordTypeA
                      THEN LET reverseZone == findReverseZone(zs, c.Endpoint.Targets[1])
                           IN  IF reverseZone = Nil
                               THEN ChangesByZoneLoop(createPTR, zs, changeSets, i + 1, m1)
                               ELSE ChangesByZoneLoop(createPTR, zs, changeSets, i + 1,
                                        MapAppend(m1, reverseZone, PtrChange(c)))
                      ELSE ChangesByZoneLoop(createPTR, zs, changeSets, i + 1, m1)

\* A loop that stops at the first change without a reverse zone.
RECURSIVE ChangesByZoneLoopBreak(_, _, _, _, _)
ChangesByZoneLoopBreak(createPTR, zs, changeSets, i, m) ==
    IF i > Len(changeSets) THEN m
    ELSE LET c == changeSets[i]
             zone == findZone(zs, c.Endpoint.DNSName)
         IN  IF zone = Nil \/ zone = <<>>
             THEN ChangesByZoneLoopBreak(createPTR, zs, changeSets, i + 1, m)
             ELSE LET m1 == MapAppend(m, zone, c)
                  IN  IF createPTR /\ c.Endpoint.RecordType = RecordTypeA
                      THEN LET reverseZone == findReverseZone(zs, c.Endpoint.Targets[1])
                           IN  IF reverseZone = Nil THEN m1
                               ELSE ChangesByZoneLoopBreak(createPTR, zs, changeSets, i + 1,
                                        MapAppend(m1, reverseZone, PtrChange(c)))
                      ELSE ChangesByZoneLoopBreak(createPTR, zs, changeSets, i + 1, m1)

\* ChangesByZone stopping at the first change without a reverse zone.
ChangesByZoneBreak(createPTR, zs, changeSets) ==
    ChangesByZoneLoopBreak(createPTR, zs, changeSets, 1, SeedZones(zs))

\* (p *Provider) ChangesByZone(zones, changeSets)
ChangesByZone(createPTR, zs, changeSets) ==
    ChangesByZoneLoop(createPTR, zs, changeSets, 1, SeedZones(zs))

-----------------------------------------------------------------------------
(* Values shared by the specifications.                                    *)

MaxZones == 3
MaxChanges == 2

Range(s) == {s[i] : i \in 1..Len(s)}
BoundedSeq(S, n) == UNION {[1..k -> S] : k \in 0..n}
Count(s, x) == Cardinality({i \in 1..Len(s) : s[i] = x})

\* An endpoint.Endpoint: no TTL configured, no provider-specific property.
Ep(name, type, targets) ==
    [DNSName |-> name, RecordType |-> type, Targets |-> targets,
     RecordTTL |-> 0, ProviderSpecific |-> <<>>]

\* An infobloxChange.
Change(action, ep) == [Action |-> action, Endpoint |-> ep]

NoChanges == [Create |-> <<>>, UpdateOld |-> <<>>, UpdateNew |-> <<>>, Delete |-> <<>>]
NoRet == [op |-> "none", arg |-> <<>>, val |-> Nil]
NoVisit == [zonesLeft |-> {}, zone |-> Nil, idx |-> 0]
\* StartupConfig.DefaultTTL as the environment leaves it.
DefaultTTL == 300
DefaultCfg == [CreatePTR |-> FALSE, DryRun |-> FALSE, DefaultTTL |-> DefaultTTL]

\* The zones a backend lists: forward zones and CIDR-named reverse zones.
\* Infoblox keeps zone names in lower case, with a non-empty fqdn.
ZoneNames == {ExampleCom, AExampleCom, Net10Slash8, Net10_1Slash16}
ZoneLists == BoundedSeq(ZoneNames, MaxZones)

-----------------------------------------------------------------------------
(* SpecZone: findZone and findReverseZone applied to a zone list.          *)

QueryNames == {HostAExampleCom, AExampleCom, UpperAExampleCom, XExampleCom,
               HostExampleCom, OtherOrg}
QueryAddresses == {Ip10_1_2_3, Ip10_9_9_9, Ip5_5_5_5, HostAExampleCom}

InitZone ==
    /\ pc = "idle"
    /\ zones \in ZoneLists
    /\ cfg = DefaultCfg
    /\ ret = NoRet
    /\ input = NoChanges
    /\ changes = NoChanges
    /\ combinedChanges = <<>>
    /\ changesByZone = <<>>
    /\ visit = NoVisit
    /\ calls = <<>>
    /\ endpoints = <<>>

CallFindZone ==
    /\ pc = "idle"
    /\ \E name \in QueryNames :
          ret' = [op |-> "findZone", arg |-> name, val |-> findZone(zones, name)]
    /\ pc' = "done"
    /\ UNCHANGED <<cfg, zones, input, changes, combinedChanges,
                   changesByZone, visit, calls, endpoints>>

CallFindReverseZone ==
    /\ pc = "idle"
    /\ \E name \in QueryAddresses :
          ret' = [op |-> "findReverseZone", arg |-> name,
                  val |-> findReverseZone(zones, name)]
    /\ pc' = "done"
    /\ UNCHANGED <<cfg, zones, input, changes, combinedChanges,
                   changesByZone, visit, calls, endpoints>>

NextZone == CallFindZone \/ CallFindReverseZone

SpecZone == InitZone /\ [][NextZone]_vars

\* The zones of zs that match name as findZone's contract states it.
ZoneMatches(zs, name) ==
    {z \in Range(zs) : EqualFold(name, z) \/ HasSuffix(name, <<".">> \o z)}

LongestMatches(zs, name) ==
    {z \in ZoneMatches(zs, name) : \A y \in ZoneMatches(zs, name) : Len(y) <= Len(z)}

\* The CIDR-named zones of zs whose network contains the address.
ReverseCandidates(zs, addr) ==
    {z \in Range(zs) : ParseCIDR(z).ok /\ Contains(ParseCIDR(z), ParseIP(addr))}

\* Every ordering of the sequence s.
Orderings(s) == {[i \in 1..Len(s) |-> s[p[i]]] : p \in Permutations(1..Len(s))}

\* C3: findReverseZone returns, among the CIDR zones containing the address,
\* one with the largest prefix length, and no zone when the address does not
\* parse or no CIDR zone contains it.
C3_ReverseZoneMostSpecific ==
    (pc = "done" /\ ret.op = "findReverseZone") =>
        LET K == ReverseCandidates(zones, ret.arg)
        IN  /\ K = {} => ret.val = Nil
            /\ K # {} => /\ ret.val \in K
                         /\ \A z \in K : ParseCIDR(z).ones <= ParseCIDR(ret.val).ones

\* C4: findZone returns, among the zones matching the name (equal to it
\* case-insensitively, or a suffix of it after a dot), the one with the
\* longest name, whatever the order of the zone list, and no zone when none
\* matches.
C4_FindZoneLongestMatch ==
    (pc = "done" /\ ret.op = "findZone") =>
        /\ ZoneMatches(zones, ret.arg) = {} => ret.val = Nil
        /\ ZoneMatches(zones, ret.arg) # {} => ret.val \in LongestMatches(zones, ret.arg)
        /\ \A q \in Orderings(zones) : findZone(q, ret.arg) = ret.val

C4_Witness ==
    /\ pc = "done"
    /\ ret.op = "findZone"
    /\ ret.arg = HostAExampleCom
    /\ zones = <<AExampleCom, ExampleCom>>
    /\ ret.val = AExampleCom

-----------------------------------------------------------------------------
(* SpecBatch: ChangesByZone applied to a zone list and a change list.      *)

TxtValue == <<"v">>

\* Single-target changes, as newIBChanges builds them.
BatchChanges ==
    {Change(infobloxCreate, Ep(HostAExampleCom, RecordTypeA, <<Ip10_1_2_3>>)),
     Change(infobloxCreate, Ep(HostExampleCom, RecordTypeA, <<Ip5_5_5_5>>)),
     Change(infobloxDelete, Ep(HostExampleCom, RecordTypeA, <<Ip10_9_9_9>>)),
     Change(infobloxDelete, Ep(OtherOrg, RecordTypeA, <<Ip10_1_2_3>>)),
     Change(infobloxUpdate, Ep(HostAExampleCom, RecordTypeTXT, <<TxtValue>>)),
     Change(infobloxCreate, Ep(OtherOrg, RecordTypeTXT, <<TxtValue>>))}

InitBatch ==
    /\ pc = "idle"
    /\ zones \in ZoneLists
    /\ cfg \in [CreatePTR : BOOLEAN, DryRun : {FALSE}, DefaultTTL : {DefaultTTL}]
    /\ combinedChanges \in BoundedSeq(BatchChanges, MaxChanges)
    /\ ret = NoRet
    /\ input = NoChanges
    /\ changes = NoChanges
    /\ changesByZone = <<>>
    /\ visit = NoVisit
    /\ calls = <<>>
    /\ endpoints = <<>>

CallChangesByZone ==
    /\ pc = "idle"
    /\ changesByZone' = ChangesByZone(cfg.CreatePTR, zones, combinedChanges)
    /\ ret' = [op |-> "ChangesByZone", arg |-> <<>>, val |-> Nil]
    /\ pc' = "done"
    /\ UNCHANGED <<cfg, zones, input, changes, combinedChanges, visit,
                   calls, endpoints>>

NextBatch == CallChangesByZone

SpecBatch == InitBatch /\ [][NextBatch]_vars

Batched == pc = "done" /\ ret.op = "ChangesByZone"
Routable(c) == ZoneMatches(zones, c.Endpoint.DNSName) # {}
HasReverse(c) == ReverseCandidates(zones, c.Endpoint.Targets[1]) # {}
IsA(c) == c.Endpoint.RecordType = RecordTypeA

\* c is in the list of its forward zone as often as in the input, and in no
\* other list.
PlacedInForwardZone(c) ==
    \E fz \in LongestMatches(zones, c.Endpoint.DNSName) :
        /\ fz \in DOMAIN changesByZone
        /\ Count(changesByZone[fz], c) = Count(combinedChanges, c)
        /\ \A z \in DOMAIN changesByZone \ {fz} : Count(changesByZone[z], c) = 0

\* C5 as stated: the reverse change has the address as DNSName and the
\* original DNSName as its single target.
C5_PtrChangeSwapsNameAndTarget ==
    (Batched /\ cfg.CreatePTR) =>
        \A i \in 1..Len(combinedChanges) :
            LET c == combinedChanges[i]
                s == [Action |-> c.Action,
                      Endpoint |-> [c.Endpoint EXCEPT !.RecordType = RecordTypePTR,
                                                      !.DNSName = c.Endpoint.Targets[1],
                                                      !.Targets = <<c.Endpoint.DNSName>>]]
            IN  (IsA(c) /\ HasReverse(c)) =>
                    \E rz \in ReverseCandidates(zones, c.Endpoint.Targets[1]) :
                        Count(changesByZone[rz], s) > 0

\* C5, amended: with CreatePTR, every A change that resolves to a forward zone
\* and whose target lies in a reverse zone adds, to the list of exactly one
\* reverse zone containing the target, a change with RecordType PTR and the
\* same Action, DNSName and single target as the forward change.
C5_PtrChangeKeepsNameAndTarget ==
    (Batched /\ cfg.CreatePTR) =>
        \A i \in 1..Len(combinedChanges) :
            LET c == combinedChanges[i]
                s == [Action |-> c.Action,
                      Endpoint |-> [c.Endpoint EXCEPT !.RecordType = RecordTypePTR]]
            IN  (IsA(c) /\ Routable(c) /\ HasReverse(c)) =>
                    \E rz \in ReverseCandidates(zones, c.Endpoint.Targets[1]) :
                        /\ Count(changesByZone[rz], s) = Count(combinedChanges, c)
                        /\ \A z \in DOMAIN changesByZone \ {rz} :
                               Count(changesByZone[z], s) = 0

C5_Witness ==
    /\ Batched
    /\ cfg.CreatePTR
    /\ \E i \in 1..Len(combinedChanges) :
          /\ IsA(combinedChanges[i])
          /\ Routable(combinedChanges[i])
          /\ combinedChanges[i].Action = infobloxDelete
          /\ Cardinality(ReverseCandidates(zones, combinedChanges[i].Endpoint.Targets[1])) = 1
          /\ \E z \in DOMAIN changesByZone : \E k \in 1..Len(changesByZone[z]) :
                changesByZone[z][k].Endpoint.RecordType = RecordTypePTR

\* C6: with CreatePTR, an A change whose target lies in no reverse zone is
\* still placed in its forward zone's list, no PTR change is added for it to
\* any list, and the changes after it are still routed.
C6_NoReverseZoneKeepsForward ==
    (Batched /\ cfg.CreatePTR) =>
        \A i \in 1..Len(combinedChanges) :
            LET c == combinedChanges[i]
            IN  (IsA(c) /\ Routable(c) /\ ~HasReverse(c)) =>
                    /\ PlacedInForwardZone(c)
                    /\ \A z \in DOMAIN changesByZone :
                         \A k \in 1..Len(changesByZone[z]) :
                           LET e == changesByZone[z][k].Endpoint
                           IN  ~(/\ e.RecordType = RecordTypePTR
                                 /\ \/ /\ e.DNSName = c.Endpoint.DNSName
                                       /\ e.Targets = c.Endpoint.Targets
                                    \/ /\ e.DNSName = c.Endpoint.Targets[1]
                                       /\ e.Targets = <<c.Endpoint.DNSName>>)
                    /\ \A j \in (i + 1)..Len(combinedChanges) :
                         Routable(combinedChanges[j]) =>
                             PlacedInForwardZone(combinedChanges[j])

C6_Witness ==
    /\ Batched
    /\ cfg.CreatePTR
    /\ zones = <<ExampleCom>>
    /\ Len(combinedChanges) = 2
    /\ combinedChanges[1] =
           Change(infobloxCreate, Ep(HostExampleCom, RecordTypeA, <<Ip5_5_5_5>>))
    /\ Routable(combinedChanges[2])
    /\ combinedChanges[2] # combinedChanges[1]
    /\ changesByZone[ExampleCom] = combinedChanges

\* C7: every zone of the list is a key of the result, every change whose
\* DNSName resolves to a zone is in that zone's list exactly as often as in
\* the input and in no other list, and a change that resolves to no zone is
\* in no list.
C7_EveryZoneKeyedEveryChangeOnce ==
    Batched =>
        /\ DOMAIN changesByZone = Range(zones)
        /\ \A i \in 1..Len(combinedChanges) :
             LET c == combinedChanges[i]
             IN  IF Routable(c) THEN PlacedInForwardZone(c)
                 ELSE \A z \in DOMAIN changesByZone : Count(changesByZone[z], c) = 0

C7_Witness ==
    /\ Batched
    /\ \E z \in DOMAIN changesByZone : changesByZone[z] = <<>>
    /\ \E i \in 1..Len(combinedChanges) : Routable(combinedChanges[i])
    /\ \E i \in 1..Len(combinedChanges) : ~Routable(combinedChanges[i])

-----------------------------------------------------------------------------
(* CountDiff and ApplyChanges.                                             *)
(*                                                                         *)
(* changes.UpdateNew is a slice of pointers: newRefs[i] names the endpoint  *)
(* object that UpdateNew[i] points to (its index in the slice as received) *)
(* and newObjs holds every object's present value, so that                 *)
(* removeTargetFromEndpoint(newEp, ..) changes the object wherever the     *)
(* slice still points to it.  The endpoints of UpdateOld are never         *)
(* written, and an endpoint appended to Create or Delete is not written    *)
(* afterwards, so those slices hold values.  A range over a Go map visits  *)
(* the keys in an order that is not specified: CountDiff is the set of the *)
(* results over every order.                                               *)

\* The key of endpointsToMap: v.DNSName + "_" + v.RecordType
Key(ep) == ep.DNSName \o <<"_">> \o ep.RecordType

\* endpointsToMap(eps): key -> the last endpoint of eps with that key (as
\* its index in eps).
endpointsToMap(eps) ==
    [k \in {Key(eps[i]) : i \in 1..Len(eps)} |->
        CHOOSE i \in 1..Len(eps) :
            Key(eps[i]) = k /\ \A j \in (i + 1)..Len(eps) : Key(eps[j]) # k]

\* targetsToMap(targets): the set of the targets.
targetsToMap(targets) == Range(targets)

\* A clone that keeps every target.
cloneWithAllTargets(ep, target) == ep

\* cloneWithSingleTarget(ep, target)
cloneWithSingleTarget(ep, target) == [ep EXCEPT !.Targets = <<target>>]

\* append(s[:i], s[i+1:]...)
RemoveAt(s, i) == SubSeq(s, 1, i - 1) \o SubSeq(s, i + 1, Len(s))

\* removeTargetFromEndpoint(ep, target): the first occurrence goes.
removeTargetFromEndpoint(ep, target) ==
    IF \E i \in 1..Len(ep.Targets) : ep.Targets[i] = target
    THEN [ep EXCEPT !.Targets =
             RemoveAt(@, CHOOSE i \in 1..Len(@) :
                             @[i] = target /\ \A j \in 1..(i - 1) : @[j] # target)]
    ELSE ep

\* The index removeFromEndpointSlice removes: the first endpoint of eps with
\* the DNSName of ep, 0 when there is none.
FirstSameDNSName(eps, ep) ==
    IF \E i \in 1..Len(eps) : eps[i].DNSName = ep.DNSName
    THEN CHOOSE i \in 1..Len(eps) :
             eps[i].DNSName = ep.DNSName /\ \A j \in 1..(i - 1) : eps[j].DNSName # ep.DNSName
    ELSE 0

\* removeFromEndpointSlice(eps, ep)
removeFromEndpointSlice(eps, ep) ==
    IF FirstSameDNSName(eps, ep) = 0 THEN eps
    ELSE RemoveAt(eps, FirstSameDNSName(eps, ep))

\* The orders in which a range statement may visit the keys of a map.
RangeOrders(S) == {f \in [1..Cardinality(S) -> S] : Range(f) = S}

\* for target := range oldTargets { if !newTargets[target] { ... } }
\* st: [list |-> changes.Delete, newEp |-> the new endpoint]
RECURSIVE DeleteLoop(_, _, _, _, _)
DeleteLoop(order, i, oldEp, newTargets, st) ==
    IF i > Len(order) THEN st
    ELSE IF order[i] \notin newTargets
    THEN DeleteLoop(order, i + 1, oldEp, newTargets,
             [list |-> Append(st.list, cloneWithSingleTarget(oldEp, order[i])),
              newEp |-> removeTargetFromEndpoint(st.newEp, order[i])])
    ELSE DeleteLoop(order, i + 1, oldEp, newTargets, st)

\* for target := range newTargets { if !oldTargets[target] { ... } }
\* st: [list |-> changes.Create, newEp |-> the new endpoint]
RECURSIVE CreateLoop(_, _, _, _)
CreateLoop(order, i, oldTargets, st) ==
    IF i > Len(order) THEN st
    ELSE IF order[i] \notin oldTargets
    THEN CreateLoop(order, i + 1, oldTargets,
             [list |-> Append(st.list, cloneWithSingleTarget(st.newEp, order[i])),
              newEp |-> removeTargetFromEndpoint(st.newEp, order[i])])
    ELSE CreateLoop(order, i + 1, oldTargets, st)

\* One change per target of ep, with the first target only.
FanOutFirstTarget(action, ep) ==
    IF ep.Targets = <<>> THEN <<>>
    ELSE <<Change(action, [ep EXCEPT !.Targets = <<ep.Targets[1]>>])>>

\* The inner loop of newIBChanges: one change per target of ep.
FanOut(action, ep) ==
    [i \in 1..Len(ep.Targets) |->
        Change(action, [ep EXCEPT !.Targets = <<ep.Targets[i]>>])]

\* newIBChanges(action, eps)
RECURSIVE newIBChanges(_, _)
newIBChanges(action, eps) ==
    IF eps = <<>> THEN <<>>
    ELSE FanOut(action, Head(eps)) \o newIBChanges(action, Tail(eps))

\* The list without the updates.
CombinedWithoutUpdates(ch) ==
    newIBChanges(infobloxCreate, ch.Create) \o newIBChanges(infobloxDelete, ch.Delete)

\* combinedChanges of ApplyChanges: creates, then updates, then deletes.
Combined(ch) ==
    newIBChanges(infobloxCreate, ch.Create)
        \o newIBChanges(infobloxUpdate, ch.UpdateNew)
        \o newIBChanges(infobloxDelete, ch.Delete)

-----------------------------------------------------------------------------
(* SpecDiff: ApplyChanges up to its call of submitChanges.                 *)

MaxTargets == 2

DiffKeys == {<<AExampleCom, RecordTypeA>>, <<AExampleCom, RecordTypeTXT>>,
             <<BExampleCom, RecordTypeA>>}
DiffTargets == {Ip1_1_1_1, Ip2_2_2_2, Ip3_3_3_3}

\* The number of targets of the batch eps.
RECURSIVE TotalTargetsOf(_)
TotalTargetsOf(eps) ==
    IF eps = <<>> THEN 0 ELSE Len(Head(eps).Targets) + TotalTargetsOf(Tail(eps))
UniqueKeys(eps) == \A i, j \in 1..Len(eps) : Key(eps[i]) = Key(eps[j]) => i = j

\* The endpoints with one to n targets.
DiffEndpoints(n) ==
    {Ep(k[1], k[2], t) : k \in DiffKeys, t \in BoundedSeq(DiffTargets, n) \ {<<>>}}

\* Batches with at most n targets in all and no key twice, built up by the
\* number of targets still to give.
RECURSIVE DiffBatches(_)
DiffBatches(n) ==
    {<<>>} \cup
    UNION {{<<e>> \o b : b \in {x \in DiffBatches(n - Len(e.Targets)) :
                                   \A i \in 1..Len(x) : Key(x[i]) # Key(e)}} :
           e \in DiffEndpoints(n)}

\* The plans ApplyChanges is called with: the two update batches alone;
\* one batch X as (X, X, X, none); a batch to delete beside the updates.
InputPlans ==
    {[Create |-> <<>>, UpdateOld |-> o, UpdateNew |-> n, Delete |-> <<>>] :
        o \in DiffBatches(MaxTargets), n \in DiffBatches(MaxTargets)}
    \cup
    {[Create |-> x, UpdateOld |-> x, UpdateNew |-> x, Delete |-> <<>>] :
        x \in DiffBatches(MaxTargets)}
    \cup
    {[Create |-> <<>>, UpdateOld |-> x, UpdateNew |-> x,
      Delete |-> <<Ep(BExampleCom, RecordTypeA, <<Ip1_1_1_1>>)>>] :
        x \in DiffBatches(MaxTargets)}

InitDiff ==
    /\ pc = "ApplyChanges"
    /\ input \in InputPlans
    /\ changes = input
    /\ cfg = DefaultCfg
    /\ zones = <<>>
    /\ ret = NoRet
    /\ combinedChanges = <<>>
    /\ changesByZone = <<>>
    /\ visit = NoVisit
    /\ calls = <<>>
    /\ endpoints = <<>>

\* The locals of CountDiff after the two endpointsToMap calls.
CountDiffStart(ch) ==
    [changes |-> ch,
     updateNewMap |-> endpointsToMap(ch.UpdateNew),
     updateOldMap |-> endpointsToMap(ch.UpdateOld),
     oldObjs |-> ch.UpdateOld,
     newObjs |-> ch.UpdateNew,
     newRefs |-> [i \in 1..Len(ch.UpdateNew) |-> i]]

\* The body of: for k, oldEp := range updateOldMap
OldPass(st, k) ==
    LET oldEp == st.oldObjs[st.updateOldMap[k]]
    IN  IF k \notin DOMAIN st.updateNewMap
        THEN [st EXCEPT
                 !.changes.Delete = Append(@, oldEp),
                 !.changes.UpdateOld = removeFromEndpointSlice(@, oldEp),
                 !.updateOldMap = [x \in DOMAIN @ \ {k} |-> @[x]]]
        ELSE st

\* The body of: for k, newEp := range updateNewMap, the two inner ranges
\* visiting the targets in the orders dOrder and cOrder.
NewPass(st, k, dOrder, cOrder) ==
    LET ref == st.updateNewMap[k]
        newEp == st.newObjs[ref]
    IN  IF k \notin DOMAIN st.updateOldMap
        THEN LET i == FirstSameDNSName(st.changes.UpdateNew, newEp)
             IN  [st EXCEPT
                     !.changes.Create = Append(@, newEp),
                     !.changes.UpdateNew = removeFromEndpointSlice(@, newEp),
                     !.newRefs = IF i = 0 THEN @ ELSE RemoveAt(@, i)]
        ELSE LET oldEp == st.oldObjs[st.updateOldMap[k]]
                 oldTargets == targetsToMap(oldEp.Targets)
                 newTargets == targetsToMap(newEp.Targets)
                 del == DeleteLoop(dOrder, 1, oldEp, newTargets,
                            [list |-> st.changes.Delete, newEp |-> newEp])
                 cre == CreateLoop(cOrder, 1, oldTargets,
                            [list |-> st.changes.Create, newEp |-> del.newEp])
             IN  [st EXCEPT
                     !.changes.Delete = del.list,
                     !.changes.Create = cre.list,
                     !.changes.UpdateNew = [j \in 1..Len(@) |->
                         IF st.newRefs[j] = ref THEN cre.newEp ELSE @[j]],
                     !.newObjs = [@ EXCEPT ![ref] = cre.newEp]]

\* The orders the inner ranges of the pass for k may take.
TargetOrders(st, k) ==
    IF k \in DOMAIN st.updateOldMap
    THEN RangeOrders(targetsToMap(st.oldObjs[st.updateOldMap[k]].Targets))
         \X RangeOrders(targetsToMap(st.newObjs[st.updateNewMap[k]].Targets))
    ELSE {<<<<>>, <<>>>>}

\* The first range, over the keys left, from each state of S.
RECURSIVE RangeOld(_, _)
RangeOld(S, left) ==
    IF left = {} THEN S
    ELSE UNION {RangeOld({OldPass(st, k) : st \in S}, left \ {k}) : k \in left}

\* The second range, over the keys left, from each state of S.
RECURSIVE RangeNew(_, _)
RangeNew(S, left) ==
    IF left = {} THEN S
    ELSE UNION {RangeNew(UNION {{NewPass(st, k, o[1], o[2]) : o \in TargetOrders(st, k)} :
                                   st \in S},
                         left \ {k}) : k \in left}

\* (p *Provider) CountDiff(changes): the values changes may hold on return.
CountDiff(ch) ==
    LET st0 == CountDiffStart(ch)
        afterOld == RangeOld({st0}, DOMAIN st0.updateOldMap)
    IN  {st.changes : st \in RangeNew(afterOld, DOMAIN st0.updateNewMap)}

\* (p *Provider) ApplyChanges(ctx, changes), up to its call of submitChanges
\* with combinedChanges.
ApplyChanges ==
    /\ pc = "ApplyChanges"
    /\ \E ch \in CountDiff(changes) :
          /\ changes' = ch
          /\ combinedChanges' = Combined(ch)
    /\ pc' = "submitChanges"
    /\ UNCHANGED <<cfg, zones, ret, input, changesByZone, visit, calls, endpoints>>

NextDiff == ApplyChanges

SpecDiff == InitDiff /\ [][NextDiff]_vars

Diffed == pc = "submitChanges"

KeysOf(eps) == {Key(eps[i]) : i \in 1..Len(eps)}
KeysInBoth == KeysOf(input.UpdateOld) \cap KeysOf(input.UpdateNew)
WithKey(eps, k) == eps[CHOOSE i \in 1..Len(eps) : Key(eps[i]) = k]
OldTargetSet(k) == Range(WithKey(input.UpdateOld, k).Targets)
NewTargetSet(k) == Range(WithKey(input.UpdateNew, k).Targets)

\* The changes of combinedChanges with this action, key and single target.
Emitted(action, k, t) ==
    Cardinality({i \in 1..Len(combinedChanges) :
                    /\ combinedChanges[i].Action = action
                    /\ Key(combinedChanges[i].Endpoint) = k
                    /\ combinedChanges[i].Endpoint.Targets = <<t>>})

\* The times the batch eps holds target t under key k.
Held(eps, k, t) ==
    Cardinality({ij \in (1..Len(eps)) \X (1..MaxTargets + 1) :
                    /\ Key(eps[ij[1]]) = k
                    /\ ij[2] <= Len(eps[ij[1]].Targets)
                    /\ eps[ij[1]].Targets[ij[2]] = t})

\* What CountDiff added for key k and target t, beyond the batches passed in.
DiffCreates(k, t) == Emitted(infobloxCreate, k, t) - Held(input.Create, k, t)
DiffDeletes(k, t) == Emitted(infobloxDelete, k, t) - Held(input.Delete, k, t)

\* C1: for every key in both update batches, the diff emits exactly one
\* Delete per distinct target only in the old target set and exactly one
\* Create per distinct target only in the new one, each change carrying one
\* target, and no target of the key gets both a Create and a Delete.
C1_SymmetricDifference ==
    Diffed =>
        /\ \A i \in 1..Len(combinedChanges) : Len(combinedChanges[i].Endpoint.Targets) = 1
        /\ \A k \in KeysInBoth : \A t \in OldTargetSet(k) \cup NewTargetSet(k) :
             /\ DiffDeletes(k, t) = IF t \in OldTargetSet(k) \ NewTargetSet(k) THEN 1 ELSE 0
             /\ DiffCreates(k, t) = IF t \in NewTargetSet(k) \ OldTargetSet(k) THEN 1 ELSE 0
             /\ ~(DiffDeletes(k, t) > 0 /\ DiffCreates(k, t) > 0)

C1_Witness ==
    /\ Diffed
    /\ \E k \in KeysInBoth :
          /\ OldTargetSet(k) \ NewTargetSet(k) # {}
          /\ NewTargetSet(k) \ OldTargetSet(k) # {}
          /\ \E t \in NewTargetSet(k) \ OldTargetSet(k) : Emitted(infobloxCreate, k, t) = 1
          /\ \E t \in OldTargetSet(k) \ NewTargetSet(k) : Emitted(infobloxDelete, k, t) = 1
    /\ \E k \in KeysInBoth :
          Len(WithKey(input.UpdateNew, k).Targets) > Cardinality(NewTargetSet(k))

\* C2 as stated: a target in both target sets of a key in both update batches
\* is in no change of the list ApplyChanges submits.
C2_CommonTargetAbsent ==
    Diffed =>
        \A k \in KeysInBoth : \A t \in OldTargetSet(k) \cap NewTargetSet(k) :
            /\ DiffCreates(k, t) = 0
            /\ DiffDeletes(k, t) = 0
            /\ Emitted(infobloxUpdate, k, t) = 0

ScenarioOld == <<Ep(AExampleCom, RecordTypeA, <<Ip1_1_1_1, Ip2_2_2_2>>)>>
ScenarioNew == <<Ep(AExampleCom, RecordTypeA, <<Ip2_2_2_2, Ip3_3_3_3>>)>>
IsScenario ==
    input = [Create |-> <<>>, UpdateOld |-> ScenarioOld, UpdateNew |-> ScenarioNew,
             Delete |-> <<>>]

\* No other endpoint of updateNew has the DNSName of the endpoint with key k.
OnlyOneWithDNSName(k) ==
    \A i \in 1..Len(input.UpdateNew) :
        input.UpdateNew[i].DNSName = WithKey(input.UpdateNew, k).DNSName
            => Key(input.UpdateNew[i]) = k

\* C2, amended: such a target gets no Create and no Delete, and it is
\* submitted as an Update, once per occurrence in the new target list, when
\* no other endpoint of updateNew has the same DNSName; old [1.1.1.1, 2.2.2.2]
\* and new [2.2.2.2, 3.3.3.3] yield Create 3.3.3.3, Update 2.2.2.2 and
\* Delete 1.1.1.1.
C2_CommonTargetUpdated ==
    Diffed =>
        /\ \A k \in KeysInBoth : \A t \in OldTargetSet(k) \cap NewTargetSet(k) :
             /\ DiffCreates(k, t) = 0
             /\ DiffDeletes(k, t) = 0
             /\ OnlyOneWithDNSName(k) =>
                    /\ Emitted(infobloxUpdate, k, t) = Held(input.UpdateNew, k, t)
                    /\ Emitted(infobloxUpdate, k, t) >= 1
        /\ IsScenario =>
             combinedChanges =
                 <<Change(infobloxCreate, Ep(AExampleCom, RecordTypeA, <<Ip3_3_3_3>>)),
                   Change(infobloxUpdate, Ep(AExampleCom, RecordTypeA, <<Ip2_2_2_2>>)),
                   Change(infobloxDelete, Ep(AExampleCom, RecordTypeA, <<Ip1_1_1_1>>))>>

C2_Witness ==
    /\ Diffed
    /\ IsScenario
    /\ Len(combinedChanges) = 3

IsRediff ==
    /\ input.Create = input.UpdateOld
    /\ input.UpdateOld = input.UpdateNew
    /\ input.Delete = <<>>

\* C9 as stated: diffing (X, X, X, none) yields no change at all.
C9_RediffYieldsNothing ==
    (Diffed /\ IsRediff) => combinedChanges = <<>>

\* C9, amended: diffing (X, X, X, none) makes CountDiff add nothing: the list
\* holds one Create per target of X (createBatch, fanned out), one Update per
\* target of X (updateNew, kept whole) and no Delete.
C9_RediffAddsNothing ==
    (Diffed /\ IsRediff) =>
        /\ changes = input
        /\ Len(combinedChanges) = 2 * TotalTargetsOf(input.UpdateNew)
        /\ \A i \in 1..Len(combinedChanges) : combinedChanges[i].Action # infobloxDelete
        /\ \A k \in KeysOf(input.UpdateNew) : \A t \in DiffTargets :
             /\ Emitted(infobloxCreate, k, t) = Held(input.UpdateNew, k, t)
             /\ Emitted(infobloxUpdate, k, t) = Held(input.UpdateNew, k, t)

C9_Witness ==
    /\ Diffed
    /\ IsRediff
    /\ Len(input.UpdateNew) = 2
    /\ Len(combinedChanges) = 4

-----------------------------------------------------------------------------
(* SpecPtr: the PTR marking of Records and of AdjustEndpoints, applied any *)
(* number of times and in any order to one endpoint list.  The list is the *)
(* one Records has assembled from the zones, or the one AdjustEndpoints    *)
(* receives; its endpoints are shared by pointer, so a call works on what  *)
(* the calls before it left.                                               *)

MaxEndpoints == 2

Property(name, value) == [Name |-> name, Value |-> value]

\* endpoint.WithProviderSpecific: the property is appended.
WithProviderSpecific(ep, name, value) ==
    [ep EXCEPT !.ProviderSpecific = Append(@, Property(name, value))]

\* Every property named as the marker gets the value "true".
OverwriteMarker(ps) ==
    [j \in 1..Len(ps) |->
        IF ps[j].Name = providerSpecificInfobloxPtrRecord
        THEN Property(ps[j].Name, "true")
        ELSE ps[j]]

\* A marking that appends without looking for the marker.
MarkByAppending(ep) == WithProviderSpecific(ep, providerSpecificInfobloxPtrRecord, "true")

\* The body both loops share: overwrite the marker where found, else append.
Mark(ep) ==
    LET found == \E j \in 1..Len(ep.ProviderSpecific) :
                    ep.ProviderSpecific[j].Name = providerSpecificInfobloxPtrRecord
    IN  IF found
        THEN [ep EXCEPT !.ProviderSpecific = OverwriteMarker(@)]
        ELSE WithProviderSpecific(ep, providerSpecificInfobloxPtrRecord, "true")

\* ptrRecordsMap of Records: the DNSNames of the PTR endpoints.
ptrRecordsMap(eps) ==
    {eps[i].DNSName : i \in {j \in 1..Len(eps) : eps[j].RecordType = RecordTypePTR}}

\* The marking Records ends with.
MarkOnRead(createPTR, eps) ==
    IF ~createPTR THEN eps
    ELSE [i \in 1..Len(eps) |->
            IF eps[i].RecordType = RecordTypeA /\ eps[i].DNSName \in ptrRecordsMap(eps)
            THEN Mark(eps[i])
            ELSE eps[i]]

\* TTL.IsConfigured: a TTL of 0 is not configured.
IsConfigured(ttl) == ttl # 0

\* AdjustEndpoints: the default TTL, then the marking of every A endpoint.
Adjusted(config, eps) ==
    LET withTTL == [i \in 1..Len(eps) |->
                       IF ~IsConfigured(eps[i].RecordTTL)
                       THEN [eps[i] EXCEPT !.RecordTTL = config.DefaultTTL]
                       ELSE eps[i]]
    IN  IF ~config.CreatePTR THEN withTTL
        ELSE [i \in 1..Len(withTTL) |->
                IF withTTL[i].RecordType = RecordTypeA
                THEN Mark(withTTL[i])
                ELSE withTTL[i]]

OtherProperty == Property("alias", "true")
PtrProperties ==
    { <<>>,
      <<Property(providerSpecificInfobloxPtrRecord, "true")>>,
      <<Property(providerSpecificInfobloxPtrRecord, "false")>>,
      <<OtherProperty>>,
      <<OtherProperty, Property(providerSpecificInfobloxPtrRecord, "false")>> }

PtrTargets(type) == IF type = RecordTypeTXT THEN <<TxtValue>> ELSE <<Ip10_1_2_3>>

PtrEndpoints ==
    {[Ep(name, type, PtrTargets(type)) EXCEPT !.RecordTTL = ttl, !.ProviderSpecific = ps] :
        name \in {AExampleCom, BExampleCom},
        type \in {RecordTypeA, RecordTypePTR, RecordTypeTXT},
        ttl \in {0, 60},
        ps \in PtrProperties}

InitPtr ==
    /\ pc = "pass"
    /\ cfg \in [CreatePTR : BOOLEAN, DryRun : {FALSE}, DefaultTTL : {DefaultTTL}]
    /\ endpoints \in BoundedSeq(PtrEndpoints, MaxEndpoints)
    /\ input = endpoints
    /\ zones = <<>>
    /\ ret = NoRet
    /\ changes = NoChanges
    /\ combinedChanges = <<>>
    /\ changesByZone = <<>>
    /\ visit = NoVisit
    /\ calls = <<>>

Records ==
    /\ pc = "pass"
    /\ endpoints' = MarkOnRead(cfg.CreatePTR, endpoints)
    /\ ret' = [op |-> "Records", arg |-> <<>>, val |-> Nil]
    /\ UNCHANGED <<pc, cfg, zones, input, changes, combinedChanges,
                   changesByZone, visit, calls>>

AdjustEndpoints ==
    /\ pc = "pass"
    /\ endpoints' = Adjusted(cfg, endpoints)
    /\ ret' = [op |-> "AdjustEndpoints", arg |-> <<>>, val |-> Nil]
    /\ UNCHANGED <<pc, cfg, zones, input, changes, combinedChanges,
                   changesByZone, visit, calls>>

NextPtr == Records \/ AdjustEndpoints

SpecPtr == InitPtr /\ [][NextPtr]_vars

MarkerValues(ep) ==
    SelectSeq(ep.ProviderSpecific,
              LAMBDA q : q.Name = providerSpecificInfobloxPtrRecord)
HasMarker(ep) == MarkerValues(ep) # <<>>
MarkedTrue(ep) == \E j \in 1..Len(MarkerValues(ep)) : MarkerValues(ep)[j].Value = "true"

\* C8: in every step of a pass, an A endpoint whose marker is "true" still
\* has it "true" afterwards, and an endpoint that carries the marker gets
\* no second marker annotation: no endpoint ever holds more than one.
C8_MarkerMonotonicAndSingle ==
    [][ /\ Len(endpoints') = Len(endpoints)
        /\ \A i \in 1..Len(endpoints) :
             /\ (endpoints[i].RecordType = RecordTypeA /\ MarkedTrue(endpoints[i]))
                    => MarkedTrue(endpoints'[i])
             /\ HasMarker(endpoints[i]) => HasMarker(endpoints'[i])
             /\ Len(MarkerValues(endpoints'[i])) <= 1 ]_vars

C8_Witness ==
    /\ ret.op = "AdjustEndpoints"
    /\ \E i \in 1..Len(endpoints) :
          /\ endpoints[i].RecordType = RecordTypeA
          /\ MarkerValues(input[i]) = <<Property(providerSpecificInfobloxPtrRecord, "false")>>
          /\ MarkerValues(endpoints[i]) = <<Property(providerSpecificInfobloxPtrRecord, "true")>>
          /\ Len(endpoints[i].ProviderSpecific) = 2
    /\ \E i \in 1..Len(endpoints) :
          /\ endpoints[i].RecordType = RecordTypeA
          /\ ~HasMarker(input[i])
          /\ MarkerValues(endpoints[i]) = <<Property(providerSpecificInfobloxPtrRecord, "true")>>

-----------------------------------------------------------------------------
(* SpecSubmit: submitChanges, one step per backend call.  The backend      *)
(* answers every call with success, with a not-found error or with another *)
(* error.  p.config.ExtAttrsJSON is the default "{}", which deserializeEAs *)
(* accepts, and p.domainFilter matches every zone.                         *)

Outcomes == {"ok", "notfound", "error"}

\* A backend call as logged: the function, the change it serves, the answer.
Call(fn, change, outcome) == [fn |-> fn, change |-> change, outcome |-> outcome]

\* An error value: its text and the call of the log that caused it (0: none).
Err(text, cause) == [text |-> text, cause |-> cause]

\* The nil error.
NoErr == Err("<nil>", 0)

Returned(val) == [op |-> "submitChanges", arg |-> <<>>, val |-> val]

\* The record types recordSet has a case for.
KnownTypes == {RecordTypeA, RecordTypePTR, RecordTypeCNAME, RecordTypeTXT}

\* zones(): err != nil && !isNotFoundError(err)
zonesFailed(outcome) == outcome = "error"

\* recordSet returns its named err, which a not-found answer leaves set;
\* buildRecord and submitChanges test err != nil.
buildRecordFailed(outcome) == outcome # "ok"

\* No answer counts as a failure.
NeverFailed(outcome) == FALSE

\* The switch of submitChanges: err != nil after Create/Delete/UpdateObject.
callFailed(outcome) == outcome # "ok"

\* The client function the switch of submitChanges calls for an action.
ClientCall(action) ==
    CASE action = infobloxCreate -> "CreateObject"
      [] action = infobloxDelete -> "DeleteObject"
      [] action = infobloxUpdate -> "UpdateObject"
      [] OTHER -> "none"

SubmitEndpoints ==
    {Ep(HostExampleCom, RecordTypeA, <<Ip10_1_2_3>>),
     Ep(AExampleCom, RecordTypeTXT, <<TxtValue>>),
     Ep(AExampleCom, RecordTypeCNAME, <<HostExampleCom>>),
     Ep(HostExampleCom, RecordTypeSRV, <<AExampleCom>>),
     Ep(OtherOrg, RecordTypeA, <<Ip5_5_5_5>>)}

SubmitChangeSet ==
    {Change(a, e) : a \in {infobloxCreate, infobloxUpdate, infobloxDelete},
                    e \in SubmitEndpoints}

SubmitZoneLists == {<<>>, <<ExampleCom>>, <<ExampleCom, Net10Slash8>>}

InitSubmit ==
    /\ pc = "submitChanges"
    /\ cfg \in [CreatePTR : BOOLEAN, DryRun : BOOLEAN, DefaultTTL : {DefaultTTL}]
    /\ zones \in SubmitZoneLists
    /\ combinedChanges \in BoundedSeq(SubmitChangeSet, MaxChanges)
    /\ ret = NoRet
    /\ input = NoChanges
    /\ changes = NoChanges
    /\ changesByZone = <<>>
    /\ visit = NoVisit
    /\ calls = <<>>
    /\ endpoints = <<>>

\* The change the inner loop of submitChanges is at.
ZoneDone ==
    IF visit.zone = Nil THEN TRUE
    ELSE visit.idx > Len(changesByZone[visit.zone])
CurrentChange == changesByZone[visit.zone][visit.idx]

\* return early if there is nothing to change
SubmitNothing ==
    /\ pc = "submitChanges"
    /\ combinedChanges = <<>>
    /\ pc' = "returned"
    /\ ret' = Returned(NoErr)
    /\ UNCHANGED <<cfg, zones, input, changes, combinedChanges, changesByZone,
                   visit, calls, endpoints>>

\* p.zones() and ChangesByZone.
FetchZones ==
    /\ pc = "submitChanges"
    /\ combinedChanges # <<>>
    /\ \E outcome \in Outcomes :
          LET res == IF outcome = "ok" THEN zones ELSE <<>>
              byZone == ChangesByZone(cfg.CreatePTR, res, combinedChanges)
          IN  /\ calls' = Append(calls, Call("PagingGetObject", Nil, outcome))
              /\ IF zonesFailed(outcome)
                 THEN /\ pc' = "returned"
                      /\ ret' = Returned(Err("could not fetch zones", Len(calls')))
                      /\ UNCHANGED <<zones, changesByZone, visit>>
                 ELSE /\ pc' = "range"
                      /\ zones' = res
                      /\ changesByZone' = byZone
                      /\ visit' = [zonesLeft |-> DOMAIN byZone, zone |-> Nil, idx |-> 0]
                      /\ UNCHANGED ret
    /\ UNCHANGED <<cfg, input, changes, combinedChanges, endpoints>>

\* The outer range over the map takes the zones in any order.
RangeZone ==
    /\ pc = "range"
    /\ ZoneDone
    /\ \E z \in visit.zonesLeft :
          visit' = [zonesLeft |-> visit.zonesLeft \ {z}, zone |-> z, idx |-> 1]
    /\ UNCHANGED <<pc, cfg, zones, ret, input, changes, combinedChanges,
                   changesByZone, calls, endpoints>>

\* Both loops are over: return nil.
SubmitDone ==
    /\ pc = "range"
    /\ ZoneDone
    /\ visit.zonesLeft = {}
    /\ pc' = "returned"
    /\ ret' = Returned(NoErr)
    /\ UNCHANGED <<cfg, zones, input, changes, combinedChanges, changesByZone,
                   visit, calls, endpoints>>

\* After buildRecord and getRefID: the dry run skips the change.
AfterRefID ==
    IF cfg.DryRun
    THEN /\ pc' = "range"
         /\ visit' = [visit EXCEPT !.idx = @ + 1]
    ELSE /\ pc' = "switch"
         /\ UNCHANGED visit

\* buildRecord and getRefID for the change the loop is at.  recordSet has
\* no case for an unknown record type and leaves obj nil: getRefID panics.
BuildRecord ==
    /\ pc = "range"
    /\ ~ZoneDone
    /\ LET change == CurrentChange
       IN  IF change.Endpoint.RecordType \notin KnownTypes
           THEN /\ pc' = "panicked"
                /\ UNCHANGED <<ret, visit, calls>>
           ELSE IF change.Action = infobloxCreate
           THEN /\ AfterRefID
                /\ UNCHANGED <<ret, calls>>
           ELSE \E outcome \in Outcomes :
                   /\ calls' = Append(calls, Call("GetObject", change, outcome))
                   /\ IF buildRecordFailed(outcome)
                      THEN /\ pc' = "returned"
                           /\ ret' = Returned(Err("could not build record", Len(calls')))
                           /\ UNCHANGED visit
                      ELSE /\ AfterRefID
                           /\ UNCHANGED ret
    /\ UNCHANGED <<cfg, zones, input, changes, combinedChanges, changesByZone,
                   endpoints>>

\* The switch on change.Action: one client call, or the unknown action.
SwitchAction ==
    /\ pc = "switch"
    /\ LET change == CurrentChange
       IN  IF ClientCall(change.Action) = "none"
           THEN /\ pc' = "returned"
                /\ ret' = Returned(Err("unknown action", 0))
                /\ UNCHANGED <<visit, calls>>
           ELSE \E outcome \in Outcomes :
                   /\ calls' = Append(calls, Call(ClientCall(change.Action), change, outcome))
                   /\ IF callFailed(outcome)
                      THEN /\ pc' = "returned"
                           /\ ret' = Returned(Err("", Len(calls')))
                           /\ UNCHANGED visit
                      ELSE /\ pc' = "range"
                           /\ visit' = [visit EXCEPT !.idx = @ + 1]
                           /\ UNCHANGED ret
    /\ UNCHANGED <<cfg, zones, input, changes, combinedChanges, changesByZone,
                   endpoints>>

NextSubmit ==
    \/ SubmitNothing
    \/ FetchZones
    \/ RangeZone
    \/ SubmitDone
    \/ BuildRecord
    \/ SwitchAction

SpecSubmit == InitSubmit /\ [][NextSubmit]_vars

\* The changes of the map the loops have not reached.
ChangesLeft ==
    IF visit.zone # Nil /\ visit.idx < Len(changesByZone[visit.zone]) THEN TRUE
    ELSE \E z \in visit.zonesLeft : changesByZone[z] # <<>>

\* C10: a backend call that failed with an error other than not-found is
\* the last call of the pass (no retry, no call for a remaining change),
\* and submitChanges has returned the error of that call.
C10_FailureAbortsThePass ==
    \A i \in 1..Len(calls) :
        calls[i].outcome = "error" =>
            /\ i = Len(calls)
            /\ pc = "returned"
            /\ ret.val # NoErr
            /\ ret.val.cause = i

C10_Witness ==
    /\ pc = "returned"
    /\ Len(calls) >= 3
    /\ calls[Len(calls)].outcome = "error"
    /\ calls[Len(calls)].fn \in {"CreateObject", "UpdateObject", "DeleteObject"}
    /\ ret.val = Err("", Len(calls))
    /\ ChangesLeft

\* The loop is at a change whose record type recordSet has no case for.
AtUnknownType ==
    IF ZoneDone THEN FALSE
    ELSE CurrentChange.Endpoint.RecordType \notin KnownTypes

\* C11: a change of unknown record type that reaches record construction is
\* skipped: submitChanges does not stop at it, the pass goes on.
C11_UnknownTypeSkipped ==
    AtUnknownType => pc # "panicked"

\* submitChanges is over, by a return or by a panic.
PassOver == pc \in {"returned", "panicked"}

MutatingCalls == {"CreateObject", "UpdateObject", "DeleteObject"}

\* The dry run issues no call that changes the backend.
DryRunNeverMutates ==
    cfg.DryRun => \A i \in 1..Len(calls) : calls[i].fn \notin MutatingCalls

\* No call of the pass failed with an error other than not-found.
BackendAvailable == \A i \in 1..Len(calls) : calls[i].outcome # "error"

\* C14: with DryRun set, submitChanges issues no CreateObject, UpdateObject
\* or DeleteObject call, and it visits every routed change: unless a read
\* call failed with an error other than not-found, the pass is not over
\* while a routed change is left.
C14_DryRunVisitsEveryChange ==
    /\ DryRunNeverMutates
    /\ (cfg.DryRun /\ PassOver /\ BackendAvailable /\ changesByZone # <<>>)
           => (ZoneDone /\ ~ChangesLeft)

-----------------------------------------------------------------------------
(* Unpaired keys and malformed batches in CountDiff.                       *)

OldOnlyKeys == KeysOf(input.UpdateOld) \ KeysOf(input.UpdateNew)
NewOnlyKeys == KeysOf(input.UpdateNew) \ KeysOf(input.UpdateOld)

\* C13: a key only in updateOld yields one Delete per target and nothing
\* else; a key only in updateNew yields one Create per target and no Update;
\* and the endpoints with a key in both batches keep their changes: every
\* target in both target sets is still submitted as the Update of its
\* endpoint, whatever other endpoint was reclassified.
C13_UnpairedKeysReclassified ==
    Diffed =>
        /\ \A k \in OldOnlyKeys : \A t \in DiffTargets :
             /\ DiffDeletes(k, t) = Held(input.UpdateOld, k, t)
             /\ DiffCreates(k, t) = 0
             /\ Emitted(infobloxUpdate, k, t) = 0
        /\ \A k \in NewOnlyKeys : \A t \in DiffTargets :
             /\ DiffCreates(k, t) = Held(input.UpdateNew, k, t)
             /\ DiffDeletes(k, t) = 0
             /\ Emitted(infobloxUpdate, k, t) = 0
        /\ \A k \in KeysInBoth : \A t \in OldTargetSet(k) \cap NewTargetSet(k) :
             Emitted(infobloxUpdate, k, t) = Held(input.UpdateNew, k, t)

(* SpecMalformed: ApplyChanges on update batches that break the caller's   *)
(* contract: a key twice in a batch, or an endpoint without a target.      *)

MaxBatch == 2

MalformedBatch(eps) ==
    \/ ~UniqueKeys(eps)
    \/ \E i \in 1..Len(eps) : eps[i].Targets = <<>>

AnyEndpoints ==
    {Ep(AExampleCom, RecordTypeA, t) : t \in {<<>>, <<Ip1_1_1_1>>, <<Ip2_2_2_2>>}}
        \cup {Ep(BExampleCom, RecordTypeA, <<Ip1_1_1_1>>)}

AnyBatches == BoundedSeq(AnyEndpoints, MaxBatch)

MalformedPlans ==
    {[Create |-> <<>>, UpdateOld |-> o, UpdateNew |-> n, Delete |-> <<>>] :
        o \in AnyBatches, n \in AnyBatches}

InitMalformed ==
    /\ pc = "ApplyChanges"
    /\ input \in MalformedPlans
    /\ MalformedBatch(input.UpdateOld) \/ MalformedBatch(input.UpdateNew)
    /\ changes = input
    /\ cfg = DefaultCfg
    /\ zones = <<>>
    /\ ret = NoRet
    /\ combinedChanges = <<>>
    /\ changesByZone = <<>>
    /\ visit = NoVisit
    /\ calls = <<>>
    /\ endpoints = <<>>

SpecMalformed == InitMalformed /\ [][NextDiff]_vars

\* C12: an update batch with a key twice or with an endpoint without a
\* target is rejected: ApplyChanges has an error to return and hands no
\* change on to submitChanges.
C12_MalformedInputRejected ==
    (Diffed /\ (MalformedBatch(input.UpdateOld) \/ MalformedBatch(input.UpdateNew)))
        => (ret # NoRet /\ combinedChanges = <<>>)

=============================================================================
